---- MODULE Spec2Model ----
(***************************************************************************)
(* BookWorm (src/main.py): a PDF text-to-speech reader.  The model covers  *)
(* the playback controller (PDFReader.read_pdf / handle_controls), the     *)
(* narration thread (PDFReader.speak_text) and the bookmark store          *)
(* (PDFReader.save_bookmark / load_bookmarks / get_bookmark).              *)
(***************************************************************************)
EXTENDS Integers, Sequences, FiniteSets, TLC

VARIABLES
    paused,          \* self.paused (threading.Event)
    stopped,         \* self.stopped (threading.Event)
    current_page,    \* self.current_page
    total_pages,     \* len(pdf_reader.pages) of the document being read
    threads,         \* every Thread ever started by read_pdf, in launch order
    read_thread,     \* handle_controls' read_thread argument (index in threads)
    start_page,      \* handle_controls' start_page argument
    ctl,             \* position of the foreground (main) thread
    command,         \* last line read by handle_controls
    jump_page,       \* handle_controls' local jump_page
    report,          \* last message printed by the foreground thread
    bookmark_file,   \* content of bookmarks.json
    last_save,       \* arguments and outcome of the last save_bookmark() call
    loaded,          \* what the last direct load_bookmarks() call read and returned
    pause_renders,   \* renders started since `paused` was last set, while set
    eof              \* standard input is exhausted: every read raises EOFError

vars == <<paused, stopped, current_page, total_pages, threads, read_thread,
          start_page, ctl, command, jump_page, report, bookmark_file,
          last_save, loaded, pause_renders, eof>>

playVars == <<paused, stopped, current_page, total_pages, threads, read_thread,
              start_page, ctl, command, jump_page, report, pause_renders,
              eof>>

(***************************************************************************)
(* Bounds of the model.                                                    *)
(***************************************************************************)
MaxPages == 7        \* largest document (pages)
MaxTasks == 3        \* threads launched in one session
MaxStored == 2       \* largest page index held by bookmarks.json at start

PageIncrement == 5   \* 'n' - Next 5 pages

Min(a, b) == IF a < b THEN a ELSE b

(***************************************************************************)
(* Text: a sequence of characters.  Terminal characters are the ones the   *)
(* regular expression [.!?]+ matches; Blank characters are what str.strip  *)
(* removes.                                                                *)
(***************************************************************************)
Terminal == {".", "!", "?"}
Blank == {" ", "\n"}

\* page.extract_text() of page page_num: a page of three sentences (one of
\* them blank), a page that is one terminal character, then pages without
\* text (scans).
PageText(page_num) ==
    CASE page_num = 0 -> <<"a", ".", " ", "!", "b">>
      [] page_num = 1 -> <<"?">>
      [] OTHER        -> <<>>

\* "\n--- Page N ---\n": blanks around a run without terminal characters.
PageHeader(page_num) == <<"\n", "h", "\n">>

RECURSIVE ExtractRange(_, _)
ExtractRange(page_num, end) ==
    IF page_num >= end THEN <<>>
    ELSE PageHeader(page_num) \o PageText(page_num) \o ExtractRange(page_num + 1, end)

\* extract_text_from_pdf(pdf_path, start, end_page=None) when the file opens.
ExtractText(start, total) == ExtractRange(start, Min(total, total))

RECURSIVE SplitFrom(_, _, _, _)
SplitFrom(text, k, cur, inDelim) ==
    IF k > Len(text) THEN <<cur>>
    ELSE IF text[k] \in Terminal
         THEN IF inDelim THEN SplitFrom(text, k + 1, cur, TRUE)
              ELSE <<cur>> \o SplitFrom(text, k + 1, <<>>, TRUE)
         ELSE SplitFrom(text, k + 1, Append(cur, text[k]), FALSE)

\* re.split(r'[.!?]+', text)
Split(text) == SplitFrom(text, 1, <<>>, FALSE)

RECURSIVE LStrip(_)
LStrip(s) == IF s # <<>> /\ Head(s) \in Blank THEN LStrip(Tail(s)) ELSE s

RECURSIVE RStrip(_)
RStrip(s) ==
    IF s # <<>> /\ s[Len(s)] \in Blank THEN RStrip(SubSeq(s, 1, Len(s) - 1)) ELSE s

\* str.strip()
Strip(s) == RStrip(LStrip(s))

\* The sentences of every range [start, total) of every document size.
SentenceTable ==
    [total \in 1..MaxPages |->
        [start \in (-1)..total |-> Split(ExtractText(start, total))]]

Sentences(t) == SentenceTable[total_pages][t.start]

(***************************************************************************)
(* The bookmark store.  bookmarks.json is missing, holds text that is not  *)
(* JSON ("invalid"), holds a JSON value that is not an object ("nonmap":   *)
(* a list, a number, null, a string), or holds a JSON object ("map").      *)
(***************************************************************************)
Docs == {"book", "other"}
pdf_path == "book"

NoMap == [d \in {} |-> 0]
Missing == [kind |-> "missing", map |-> NoMap]
Invalid == [kind |-> "invalid", map |-> NoMap]
NonMap  == [kind |-> "nonmap", map |-> NoMap]
MapFile(m) == [kind |-> "map", map |-> m]

StoredMaps == UNION {[D -> 0..MaxStored] : D \in SUBSET Docs}
Files == {Missing, Invalid, NonMap} \cup {MapFile(m) : m \in StoredMaps}

\* json.load(f): raises on text that is not JSON, else returns the value.
json_load(file) ==
    CASE file.kind = "map"    -> [raised |-> FALSE, isdict |-> TRUE, map |-> file.map]
      [] file.kind = "nonmap" -> [raised |-> FALSE, isdict |-> FALSE, map |-> NoMap]
      [] OTHER                -> [raised |-> TRUE, isdict |-> TRUE, map |-> NoMap]

EmptyDict == [isdict |-> TRUE, map |-> NoMap]

\* load_bookmarks(): the value returned to the caller.
load_bookmarks(file) ==
    IF file.kind # "missing"
    THEN LET r == json_load(file)
         IN IF r.raised THEN EmptyDict ELSE [isdict |-> r.isdict, map |-> r.map]
    ELSE EmptyDict

\* bookmarks[pdf_path] = page_num on a dict
Put(m, doc, p) == [d \in (DOMAIN m) \cup {doc} |-> IF d = doc THEN p ELSE m[d]]

\* Outcomes of open(..., 'w') + json.dump: written in full, open() raised
\* (nothing touched), or the dump raised after open() truncated the file.
IoOutcomes == {"ok", "open_fails", "dump_fails"}

\* save_bookmark(doc, p): the file afterwards, the message printed, and
\* whether an exception left the method (TypeError: item assignment on a
\* value that is not a dict).
save_bookmark(file, doc, p, io) ==
    LET bookmarks == load_bookmarks(file)
    IN IF ~bookmarks.isdict
       THEN [file |-> file, raised |-> TRUE, msg |-> "none"]
       ELSE CASE io = "ok" ->
                   [file |-> MapFile(Put(bookmarks.map, doc, p)),
                    raised |-> FALSE, msg |-> "BookmarkSaved"]
              [] io = "open_fails" ->
                   [file |-> file, raised |-> FALSE, msg |-> "ErrorSaving"]
              [] OTHER ->
                   [file |-> Invalid, raised |-> FALSE, msg |-> "ErrorSaving"]

\* get_bookmark(pdf_path) on a dict: bookmarks.get(pdf_path, 0)
get_bookmark(b, doc) == IF doc \in DOMAIN b.map THEN b.map[doc] ELSE 0

NoSave == [doc |-> "none", page |-> 0, io |-> "none", raised |-> FALSE]

NotLoaded == [called |-> FALSE, kind |-> "missing", isdict |-> TRUE, map |-> NoMap]

(***************************************************************************)
(* The narration thread: speak_text(text), one step per shared read or     *)
(* sink call.  A thread record holds its position (pc), the index i of the *)
(* sentence it is at and the start page of its range; a thread that has    *)
(* ended holds nothing more.                                               *)
(***************************************************************************)
NewThread(sp) == [pc |-> "l134", i |-> 1, start |-> sp]

Alive(t) == t.pc # "dead"

Dead(t) == [pc |-> "dead", i |-> 0, start |-> 0]

LiveThreads == {k \in 1..Len(threads) : Alive(threads[k])}

SetThread(k, t) == threads' = [threads EXCEPT ![k] = t]

\* for i, sentence in enumerate(sentences): if self.stopped.is_set(): break
T134(k) ==
    /\ threads[k].pc = "l134"
    /\ LET t == threads[k]
       IN IF t.i > Len(Sentences(t)) THEN SetThread(k, Dead(t))
          ELSE IF stopped THEN SetThread(k, Dead(t))
          ELSE SetThread(k, [t EXCEPT !.pc = "l138"])
    /\ UNCHANGED <<paused, stopped, current_page, total_pages, eof, read_thread,
                   start_page, ctl, command, jump_page, report, bookmark_file,
                   last_save, loaded, pause_renders>>

\* Mutation of T138: the thread does not look at `paused`.
T138IgnoresPause(k) ==
    /\ threads[k].pc = "l138"
    /\ SetThread(k, [threads[k] EXCEPT !.pc = "l143"])
    /\ UNCHANGED <<paused, stopped, current_page, total_pages, eof, read_thread,
                   start_page, ctl, command, jump_page, report, bookmark_file,
                   last_save, loaded, pause_renders>>

\* while self.paused.is_set():
T138(k) ==
    /\ threads[k].pc = "l138"
    /\ SetThread(k, [threads[k] EXCEPT !.pc = IF paused THEN "l139" ELSE "l143"])
    /\ UNCHANGED <<paused, stopped, current_page, total_pages, eof, read_thread,
                   start_page, ctl, command, jump_page, report, bookmark_file,
                   last_save, loaded, pause_renders>>

\* Mutation of T139: the pause loop sleeps without looking at `stopped`.
T139IgnoresStop(k) ==
    /\ threads[k].pc = "l139"
    /\ SetThread(k, [threads[k] EXCEPT !.pc = "l138"])
    /\ UNCHANGED <<paused, stopped, current_page, total_pages, eof, read_thread,
                   start_page, ctl, command, jump_page, report, bookmark_file,
                   last_save, loaded, pause_renders>>

\* if self.stopped.is_set(): break  /  time.sleep(0.1)
T139(k) ==
    /\ threads[k].pc = "l139"
    /\ SetThread(k, [threads[k] EXCEPT !.pc = IF stopped THEN "l143" ELSE "l138"])
    /\ UNCHANGED <<paused, stopped, current_page, total_pages, eof, read_thread,
                   start_page, ctl, command, jump_page, report, bookmark_file,
                   last_save, loaded, pause_renders>>

\* if self.stopped.is_set(): break
\* Mutation of T143: the check of `stopped` at line 143 is dropped.
T143IgnoresStop(k) ==
    /\ threads[k].pc = "l143"
    /\ SetThread(k, [threads[k] EXCEPT !.pc = "l146"])
    /\ UNCHANGED <<paused, stopped, current_page, total_pages, eof, read_thread,
                   start_page, ctl, command, jump_page, report, bookmark_file,
                   last_save, loaded, pause_renders>>

T143(k) ==
    /\ threads[k].pc = "l143"
    /\ SetThread(k, IF stopped THEN Dead(threads[k])
                    ELSE [threads[k] EXCEPT !.pc = "l146"])
    /\ UNCHANGED <<paused, stopped, current_page, total_pages, eof, read_thread,
                   start_page, ctl, command, jump_page, report, bookmark_file,
                   last_save, loaded, pause_renders>>

\* The sentence thread t is at, stripped.
Unit(t) == Strip(Sentences(t)[t.i])

\* Mutation of T146: the test `if sentence.strip()` is dropped.
T146RendersBlank(k) ==
    /\ threads[k].pc = "l146"
    /\ SetThread(k, [threads[k] EXCEPT !.pc = "l148"])
    /\ pause_renders' = IF paused THEN Min(pause_renders + 1, 2)
                        ELSE pause_renders
    /\ UNCHANGED <<paused, stopped, current_page, total_pages, eof, read_thread,
                   start_page, ctl, command, jump_page, report, bookmark_file,
                   last_save, loaded>>

\* if sentence.strip(): self.engine.say(sentence.strip()); runAndWait() begins
T146(k) ==
    /\ threads[k].pc = "l146"
    /\ LET t == threads[k]
       IN IF Unit(t) # <<>>
          THEN /\ SetThread(k, [t EXCEPT !.pc = "l148"])
               /\ pause_renders' = IF paused THEN Min(pause_renders + 1, 2)
                                   ELSE pause_renders
          ELSE /\ SetThread(k, [t EXCEPT !.pc = "l134", !.i = t.i + 1])
               /\ UNCHANGED pause_renders
    /\ UNCHANGED <<paused, stopped, current_page, total_pages, eof, read_thread,
                   start_page, ctl, command, jump_page, report, bookmark_file,
                   last_save, loaded>>

\* self.engine.runAndWait() returns
T148(k) ==
    /\ threads[k].pc = "l148"
    /\ SetThread(k, [threads[k] EXCEPT !.pc = "l134", !.i = threads[k].i + 1])
    /\ UNCHANGED <<paused, stopped, current_page, total_pages, eof, read_thread,
                   start_page, ctl, command, jump_page, report, bookmark_file,
                   last_save, loaded, pause_renders>>

\* self.engine.say / runAndWait raises: nothing in speak_text catches it
T148Raise(k) ==
    /\ threads[k].pc = "l148"
    /\ SetThread(k, Dead(threads[k]))
    /\ UNCHANGED <<paused, stopped, current_page, total_pages, eof, read_thread,
                   start_page, ctl, command, jump_page, report, bookmark_file,
                   last_save, loaded, pause_renders>>

(***************************************************************************)
(* The foreground thread: main, read_pdf and handle_controls.              *)
(***************************************************************************)
Msg(m, n) == [msg |-> m, page |-> n]

\* Mutation of Joined: the join does not wait for the thread.
JoinedNoWait(k) == TRUE

\* read_thread.join(): returns once the thread has ended.
Joined(k) == ~Alive(threads[k])

\* Mutation of read_pdf: self.current_page is not set.
read_pdf_keeps_page(sp, opened) ==
    /\ UNCHANGED current_page
    /\ stopped' = FALSE
    /\ paused' = FALSE
    /\ IF opened /\ ExtractText(sp, total_pages) # <<>>
       THEN /\ threads' = Append(threads, NewThread(sp))
            /\ read_thread' = Len(threads) + 1
            /\ start_page' = sp
            /\ ctl' = "loop"
            /\ report' = Msg("Reading", sp + 1)
       ELSE /\ ctl' = "done"
            /\ report' = IF opened THEN Msg("Reading", sp + 1)
                         ELSE Msg("ErrorReadingPDF", 0)
            /\ UNCHANGED <<threads, read_thread, start_page>>

\* Mutation of read_pdf: self.paused.clear() is dropped.
read_pdf_keeps_paused(sp, opened) ==
    /\ current_page' = sp
    /\ stopped' = FALSE
    /\ UNCHANGED paused
    /\ IF opened /\ ExtractText(sp, total_pages) # <<>>
       THEN /\ threads' = Append(threads, NewThread(sp))
            /\ read_thread' = Len(threads) + 1
            /\ start_page' = sp
            /\ ctl' = "loop"
            /\ report' = Msg("Reading", sp + 1)
       ELSE /\ ctl' = "done"
            /\ report' = IF opened THEN Msg("Reading", sp + 1)
                         ELSE Msg("ErrorReadingPDF", 0)
            /\ UNCHANGED <<threads, read_thread, start_page>>

\* read_pdf(pdf_path, sp); opened tells whether open()/PdfReader succeeded in
\* extract_text_from_pdf.  With a thread started, control goes on into
\* handle_controls; without one read_pdf returns, and so does every
\* enclosing handle_controls (break, join of an ended thread, return).
read_pdf(sp, opened) ==
    /\ current_page' = sp
    /\ stopped' = FALSE
    /\ paused' = FALSE
    /\ IF opened /\ ExtractText(sp, total_pages) # <<>>
       THEN /\ threads' = Append(threads, NewThread(sp))
            /\ read_thread' = Len(threads) + 1
            /\ start_page' = sp
            /\ ctl' = "loop"
            /\ report' = Msg("Reading", sp + 1)
       ELSE /\ ctl' = "done"
            /\ report' = IF opened THEN Msg("Reading", sp + 1)
                         ELSE Msg("ErrorReadingPDF", 0)
            /\ UNCHANGED <<threads, read_thread, start_page>>

\* main(): get_bookmark, the resume question or the start menu, read_pdf.
\* bookmarks.get on a value that is not a dict raises AttributeError.
Main(sp, opened) ==
    /\ ctl = "main"
    /\ LET b == load_bookmarks(bookmark_file)
       IN /\ IF ~b.isdict
             THEN /\ ctl' = "crashed"
                  /\ UNCHANGED <<paused, stopped, current_page, threads,
                                 read_thread, start_page, report>>
             ELSE /\ \/ get_bookmark(b, pdf_path) > 0 /\ sp = get_bookmark(b, pdf_path)
                     \/ sp \in 0..total_pages
                  /\ read_pdf(sp, opened)
    /\ UNCHANGED <<total_pages, eof, command, jump_page, bookmark_file, last_save,
                   loaded, pause_renders>>

\* while read_thread.is_alive(): the next iteration begins; what the last
\* one read, printed and computed is gone.
HandleLoop ==
    /\ ctl = "loop"
    /\ ctl' = IF Alive(threads[read_thread]) THEN "input" ELSE "join_final"
    /\ command' = "none"
    /\ jump_page' = 0
    /\ report' = Msg("none", 0)
    /\ last_save' = NoSave
    /\ UNCHANGED <<paused, stopped, current_page, total_pages, eof, threads,
                   read_thread, start_page, bookmark_file, loaded,
                   pause_renders>>

\* command == 'p'
CmdPause ==
    /\ ctl = "input"
    /\ ~eof
    /\ command' = "p"
    /\ IF paused
       THEN /\ paused' = FALSE
            /\ report' = Msg("Resumed", 0)
            /\ UNCHANGED pause_renders
       ELSE /\ paused' = TRUE
            /\ report' = Msg("Paused", 0)
            /\ pause_renders' = 0
    /\ ctl' = "loop"
    /\ UNCHANGED <<stopped, current_page, total_pages, eof, threads, read_thread,
                   start_page, jump_page, bookmark_file, last_save, loaded>>

\* command == 's': set stopped, break, then the join of line 221
CmdStop ==
    /\ ctl = "input"
    /\ ~eof
    /\ command' = "s"
    /\ stopped' = TRUE
    /\ report' = Msg("Stopped", 0)
    /\ ctl' = "join_final"
    /\ UNCHANGED <<paused, current_page, total_pages, eof, threads, read_thread,
                   start_page, jump_page, bookmark_file, last_save,
                   loaded, pause_renders>>

\* The position handle_controls hands to save_bookmark.
BookmarkPage == current_page

\* command == 'b': self.save_bookmark(pdf_path, self.current_page)
CmdBookmark(io) ==
    /\ ctl = "input"
    /\ ~eof
    /\ command' = "b"
    /\ LET r == save_bookmark(bookmark_file, pdf_path, BookmarkPage, io)
       IN /\ bookmark_file' = r.file
          /\ last_save' = [doc |-> pdf_path, page |-> BookmarkPage, io |-> io,
                           raised |-> r.raised]
          /\ IF r.raised
             THEN ctl' = "crashed" /\ UNCHANGED report
             ELSE /\ ctl' = "loop"
                  /\ report' = Msg(r.msg, IF r.msg = "BookmarkSaved"
                                          THEN BookmarkPage + 1 ELSE 0)
    /\ UNCHANGED <<paused, stopped, current_page, total_pages, eof, threads,
                   read_thread, start_page, jump_page, loaded, pause_renders>>

\* command == 'n': self.stopped.set(), then read_thread.join() blocks
CmdNext ==
    /\ ctl = "input"
    /\ ~eof
    /\ Len(threads) < MaxTasks
    /\ command' = "n"
    /\ stopped' = TRUE
    /\ ctl' = "join_n"
    /\ UNCHANGED <<paused, current_page, total_pages, eof, threads, read_thread,
                   start_page, jump_page, report, bookmark_file,
                   last_save, loaded, pause_renders>>

\* Mutation of NextPage: the new page is not clamped.
NextPageNoClamp(sp, total) == sp + PageIncrement

\* new_page = min(start_page + 5, total_pages - 1)
NextPage(sp, total) == Min(sp + PageIncrement, total - 1)

\* 'n' after the join: self.read_pdf(pdf_path, new_page)
JoinNext(opened) ==
    /\ ctl = "join_n"
    /\ Joined(read_thread)
    /\ read_pdf(NextPage(start_page, total_pages), opened)
    /\ UNCHANGED <<total_pages, eof, command, jump_page, bookmark_file,
                   last_save, loaded, pause_renders>>

\* command == 'j': the prompt for the page number
CmdJump ==
    /\ ctl = "input"
    /\ ~eof
    /\ command' = "j"
    /\ ctl' = "jump_input"
    /\ UNCHANGED <<paused, stopped, current_page, total_pages, eof, threads,
                   read_thread, start_page, jump_page, report, bookmark_file,
                   last_save, loaded, pause_renders>>

\* What the user may type at the prompt: a number, or text int() rejects.
PageInputs == {[num |-> TRUE, val |-> v] : v \in 0..(MaxPages + 1)}
                  \cup {[num |-> FALSE, val |-> 0]}

\* Mutation of ValidPage: the upper limit is included.
ValidPageInclusive(p, total) == 0 <= p /\ p <= total

\* Mutation of ValidPage: the lower bound 0 <= jump_page is dropped.
ValidPageNoLower(p, total) == p < total

\* if 0 <= jump_page < total_pages
ValidPage(p, total) == 0 <= p /\ p < total

\* the page entry: int(page_input) - 1, the range check, self.stopped.set()
JumpEntry(page_input) ==
    /\ ctl = "jump_input"
    /\ ~eof
    /\ IF ~page_input.num
       THEN /\ report' = Msg("InvalidInput", 0)
            /\ ctl' = "loop"
            /\ UNCHANGED <<stopped, jump_page>>
       ELSE /\ jump_page' = page_input.val - 1
            /\ IF ValidPage(page_input.val - 1, total_pages)
               THEN /\ Len(threads) < MaxTasks
                    /\ stopped' = TRUE
                    /\ ctl' = "join_j"
                    /\ UNCHANGED report
               ELSE /\ report' = Msg("InvalidPage", 0)
                    /\ ctl' = "loop"
                    /\ UNCHANGED stopped
    /\ UNCHANGED <<paused, current_page, total_pages, eof, threads, read_thread,
                   start_page, command, bookmark_file, last_save,
                   loaded, pause_renders>>

\* Mutation of JoinJump: the restart uses the old start page.
JoinJumpSamePage(opened) ==
    /\ ctl = "join_j"
    /\ Joined(read_thread)
    /\ read_pdf(start_page, opened)
    /\ UNCHANGED <<total_pages, eof, command, jump_page, bookmark_file,
                   last_save, loaded, pause_renders>>

\* 'j' after the join: self.read_pdf(pdf_path, jump_page)
JoinJump(opened) ==
    /\ ctl = "join_j"
    /\ Joined(read_thread)
    /\ read_pdf(jump_page, opened)
    /\ UNCHANGED <<total_pages, eof, command, jump_page, bookmark_file,
                   last_save, loaded, pause_renders>>

\* any other line: no branch matches
CmdOther ==
    /\ ctl = "input"
    /\ ~eof
    /\ command' = "other"
    /\ ctl' = "loop"
    /\ UNCHANGED <<paused, stopped, current_page, total_pages, eof, threads,
                   read_thread, start_page, jump_page, report, bookmark_file,
                   last_save, loaded, pause_renders>>

\* Standard input is closed while handle_controls waits for a line.
InputCloses ==
    /\ ctl \in {"input", "jump_input"}
    /\ ~eof
    /\ eof' = TRUE
    /\ UNCHANGED <<paused, stopped, current_page, total_pages, threads,
                   read_thread, start_page, ctl, command, jump_page, report,
                   bookmark_file, last_save, loaded, pause_renders>>

\* input() raises EOFError: except EOFError: time.sleep(0.1), next iteration
ReadEOF ==
    /\ ctl \in {"input", "jump_input"}
    /\ eof
    /\ ctl' = "loop"
    /\ UNCHANGED <<paused, stopped, current_page, total_pages, eof, threads,
                   read_thread, start_page, command, jump_page, report,
                   bookmark_file, last_save, loaded, pause_renders>>

\* read_thread.join() of line 221, then the return to main
JoinFinal ==
    /\ ctl = "join_final"
    /\ Joined(read_thread)
    /\ ctl' = "done"
    /\ UNCHANGED <<paused, stopped, current_page, total_pages, eof, threads,
                   read_thread, start_page, command, jump_page, report,
                   bookmark_file, last_save, loaded, pause_renders>>

(***************************************************************************)
(* The session: PDFReader() constructed, a document and a bookmarks.json   *)
(* found in some state, then main().                                       *)
(***************************************************************************)
DocSizes == {1, 2, MaxPages}

InitFiles == {Missing, Invalid, NonMap, MapFile(NoMap)}
                 \cup {MapFile([d \in {pdf_path} |-> p]) : p \in 0..MaxStored}

Init ==
    /\ paused = FALSE
    /\ stopped = FALSE
    /\ current_page = 0
    /\ total_pages \in DocSizes
    /\ threads = <<>>
    /\ read_thread = 0
    /\ start_page = 0
    /\ ctl = "main"
    /\ command = "none"
    /\ jump_page = 0
    /\ report = Msg("none", 0)
    /\ bookmark_file \in InitFiles
    /\ last_save = NoSave
    /\ loaded = NotLoaded
    /\ pause_renders = 0
    /\ eof = FALSE

ThreadStep(k) ==
    T134(k) \/ T138(k) \/ T139(k) \/ T143(k) \/ T146(k) \/ T148(k) \/ T148Raise(k)

AnyThreadStep == \E k \in 1..Len(threads) : ThreadStep(k)

Next ==
    \/ \E sp \in 0..(MaxPages + 1), opened \in BOOLEAN : Main(sp, opened)
    \/ HandleLoop
    \/ CmdPause
    \/ CmdStop
    \/ \E io \in IoOutcomes : CmdBookmark(io)
    \/ CmdNext
    \/ \E opened \in BOOLEAN : JoinNext(opened)
    \/ CmdJump
    \/ \E page_input \in PageInputs : JumpEntry(page_input)
    \/ \E opened \in BOOLEAN : JoinJump(opened)
    \/ CmdOther
    \/ InputCloses
    \/ ReadEOF
    \/ JoinFinal
    \/ \E k \in 1..Len(threads) : T134(k)
    \/ \E k \in 1..Len(threads) : T138(k)
    \/ \E k \in 1..Len(threads) : T139(k)
    \/ \E k \in 1..Len(threads) : T143(k)
    \/ \E k \in 1..Len(threads) : T146(k)
    \/ \E k \in 1..Len(threads) : T148(k)
    \/ \E k \in 1..Len(threads) : T148Raise(k)

Spec == Init /\ [][Next]_vars

\* The scheduler runs a started thread, every sink call returns (or raises),
\* a join returns once its thread has ended, and the control loop goes on
\* when nothing blocks it (its test, and a read that raises EOFError).
FairSpec ==
    /\ Spec
    /\ WF_vars(AnyThreadStep)
    /\ WF_vars(JoinFinal)
    /\ WF_vars(HandleLoop)
    /\ WF_vars(ReadEOF)

(***************************************************************************)
(* The bookmark store on its own: save_bookmark, load_bookmarks and the    *)
(* file being removed, for any document and page, from any file content.   *)
(***************************************************************************)
StoreSave(doc, p, io) ==
    /\ p < total_pages
    /\ LET r == save_bookmark(bookmark_file, doc, p, io)
       IN /\ bookmark_file' = r.file
          /\ last_save' = [doc |-> doc, page |-> p, io |-> io, raised |-> r.raised]
    /\ loaded' = NotLoaded
    /\ UNCHANGED playVars

StoreLoad ==
    /\ LET b == load_bookmarks(bookmark_file)
       IN loaded' = [called |-> TRUE, kind |-> bookmark_file.kind,
                     isdict |-> b.isdict, map |-> b.map]
    /\ UNCHANGED <<bookmark_file, last_save, playVars>>

\* bookmarks.json is deleted by the user
StoreDelete ==
    /\ bookmark_file.kind # "missing"
    /\ bookmark_file' = Missing
    /\ last_save' = NoSave
    /\ loaded' = NotLoaded
    /\ UNCHANGED playVars

StoreInit ==
    /\ paused = FALSE
    /\ stopped = FALSE
    /\ current_page = 0
    /\ total_pages \in DocSizes
    /\ threads = <<>>
    /\ read_thread = 0
    /\ start_page = 0
    /\ ctl = "main"
    /\ command = "none"
    /\ jump_page = 0
    /\ report = Msg("none", 0)
    /\ bookmark_file \in Files
    /\ last_save = NoSave
    /\ loaded = NotLoaded
    /\ pause_renders = 0
    /\ eof = FALSE

StoreNext ==
    \/ \E doc \in Docs, p \in 0..(MaxPages - 1), io \in IoOutcomes :
           StoreSave(doc, p, io)
    \/ StoreLoad
    \/ StoreDelete

StoreSpec == StoreInit /\ [][StoreNext]_vars

(***************************************************************************)
(* Properties.                                                             *)
(***************************************************************************)

\* C1: at most one narration thread is live at any instant, whatever
\* start, stop, next-range and jump commands have been issued.
C1_AtMostOneLive == Cardinality(LiveThreads) <= 1

\* A later thread is live after a restart, the earlier ones have ended.
C1_Witness ==
    /\ Len(threads) >= 2
    /\ LiveThreads = {Len(threads)}
    /\ command \in {"n", "j"}

\* C2: after a stop command (task running or paused) the thread eventually
\* ends and the final join returns, and the stop launches no further thread.
C2_StopTerminates ==
    /\ (ctl = "join_final" /\ command = "s") ~> (ctl = "done" /\ LiveThreads = {})
    /\ [][(command = "s" /\ ctl \in {"join_final", "done"})
             => Len(threads') = Len(threads)]_vars

\* A session ended by a stop that was issued while paused.
C2_Witness ==
    /\ command = "s"
    /\ ctl = "done"
    /\ paused
    /\ stopped
    /\ LiveThreads = {}

\* A step of thread k that starts a render (engine.say / runAndWait).
RenderStarts(k) == threads[k].pc = "l146" /\ threads'[k].pc = "l148"

\* C3 as stated: while `paused` is set no thread starts a render.
C3_NoRenderWhilePaused ==
    [][paused => ~(\E k \in 1..Len(threads) : RenderStarts(k))]_vars

\* C3 as amended: between a pause command setting `paused` and the signal
\* being cleared, at most one render is started (by a thread that had
\* passed its pause check of line 138 before the signal was set).
C3_AtMostOneRenderWhilePaused == pause_renders <= 1

\* A render was started while paused, and the thread now waits in the
\* pause loop with the next sentence unsent.
C3_Witness ==
    /\ paused
    /\ pause_renders = 1
    /\ \E k \in LiveThreads : threads[k].pc = "l139" /\ threads[k].i >= 2

\* C4 as stated: a valid jump joins the prior thread, sets the current
\* position to the target page and launches a thread for that page.
C4_JumpLaunches ==
    [][(ctl = "join_j" /\ ctl' # "join_j")
          => /\ LiveThreads = {}
             /\ stopped
             /\ 0 <= jump_page /\ jump_page < total_pages
             /\ current_page' = jump_page
             /\ Len(threads') = Len(threads) + 1
             /\ threads'[Len(threads')] = NewThread(jump_page)]_vars

\* C4 as amended: a valid jump joins the prior thread and sets the current
\* position to the target page; it launches a thread whose range begins at
\* that page unless text extraction fails, and then launches none.
C4_JumpRestarts ==
    [][(ctl = "join_j" /\ ctl' # "join_j")
          => /\ LiveThreads = {}
             /\ stopped
             /\ 0 <= jump_page /\ jump_page < total_pages
             /\ current_page' = jump_page
             /\ IF report'.msg = "ErrorReadingPDF"
                THEN threads' = threads /\ ctl' = "done"
                ELSE /\ Len(threads') = Len(threads) + 1
                     /\ threads'[Len(threads')] = NewThread(jump_page)
                     /\ ~paused' /\ ~stopped'
                     /\ ctl' = "loop"]_vars

\* jump to page index 4: the new thread reads from page 4, the old has ended.
C4_Witness ==
    /\ command = "j"
    /\ ctl = "loop"
    /\ jump_page = 4
    /\ current_page = 4
    /\ report = Msg("Reading", 5)
    /\ Len(threads) >= 2
    /\ LiveThreads = {Len(threads)}
    /\ threads[Len(threads)].start = 4

\* C5: a page entry that is not a number, or whose page lies outside
\* [0, total_pages), is reported and changes nothing: signals, position and
\* threads stay as they are; only a page inside the range goes on to the
\* restart.
C5_InvalidJumpRejected ==
    [][(ctl = "jump_input" /\ ~eof)
          => \/ ctl' = "jump_input"
             \/ /\ ctl' = "join_j"
                /\ 0 <= jump_page' /\ jump_page' < total_pages
             \/ /\ ctl' = "loop"
                /\ \/ report'.msg = "InvalidInput"
                   \/ /\ report'.msg = "InvalidPage"
                      /\ (jump_page' < 0 \/ jump_page' >= total_pages)
                /\ UNCHANGED <<paused, stopped, current_page, threads,
                               read_thread, start_page, bookmark_file>>]_vars

\* jump(total_pages) was rejected while the thread is live.
C5_Witness ==
    /\ report.msg = "InvalidPage"
    /\ jump_page = total_pages
    /\ command = "j"
    /\ LiveThreads # {}

\* The start page next-range asks for: start + 5 clamped to the last page.
Clamped(sp, total) == IF sp + 5 < total - 1 THEN sp + 5 ELSE total - 1

\* C6 as stated: next-range joins the thread and starts a new one at the
\* range's start page plus 5, clamped into [0, total_pages - 1].
C6_NextLaunches ==
    [][(ctl = "join_n" /\ ctl' # "join_n")
          => /\ LiveThreads = {}
             /\ current_page' = Clamped(start_page, total_pages)
             /\ 0 <= current_page' /\ current_page' <= total_pages - 1
             /\ Len(threads') = Len(threads) + 1
             /\ threads'[Len(threads')] = NewThread(current_page')]_vars

\* C6 as amended: as stated, except that no thread is started when text
\* extraction for the new range fails.
C6_NextRestarts ==
    [][(ctl = "join_n" /\ ctl' # "join_n")
          => /\ LiveThreads = {}
             /\ current_page' = Clamped(start_page, total_pages)
             /\ 0 <= current_page' /\ current_page' <= total_pages - 1
             /\ IF report'.msg = "ErrorReadingPDF"
                THEN threads' = threads /\ ctl' = "done"
                ELSE /\ Len(threads') = Len(threads) + 1
                     /\ threads'[Len(threads')] = NewThread(current_page')
                     /\ ctl' = "loop"]_vars

\* next-range from page 0 of a document of more than 6 pages: page 5.
C6_Witness ==
    /\ command = "n"
    /\ ctl = "loop"
    /\ total_pages > 6
    /\ current_page = 5
    /\ report = Msg("Reading", 6)
    /\ LiveThreads = {Len(threads)}
    /\ threads[Len(threads)].start = 5

\* C7: a load() after save(doc, p) returns a mapping with doc at p,
\* whatever the file held before (here: for every save whose write did not
\* fail).
C7_RoundTrip ==
    (loaded.called /\ last_save.doc # "none" /\ last_save.io = "ok")
        => /\ loaded.isdict
           /\ last_save.doc \in DOMAIN loaded.map
           /\ loaded.map[last_save.doc] = last_save.page

\* C8: load() always returns a mapping, the empty one when the file is
\* missing or does not hold a bookmark record.
C8_LoadReturnsMapping ==
    loaded.called
        => /\ loaded.isdict
           /\ (loaded.kind # "map" => loaded.map = NoMap)

\* C9: whatever the outcome of the write, a load() after a save returns
\* the full previous mapping or the full new one.
C9_SaveAtomic ==
    [][(last_save' # last_save /\ last_save'.doc # "none")
          => LET before == load_bookmarks(bookmark_file)
                 after  == load_bookmarks(bookmark_file')
             IN \/ after = before
                \/ after = [isdict |-> TRUE,
                            map |-> Put(before.map, last_save'.doc,
                                        last_save'.page)]]_vars

\* The store holds doc at page p.
Stored(file, doc, p) ==
    LET b == load_bookmarks(file)
    IN b.isdict /\ doc \in DOMAIN b.map /\ b.map[doc] = p

\* C10 as stated: every bookmark command persists the current position
\* under the document and changes neither signals, position nor threads.
C10_BookmarkPersists ==
    [][(ctl = "input" /\ command' = "b")
          => /\ Stored(bookmark_file', pdf_path, current_page)
             /\ UNCHANGED <<paused, stopped, current_page, threads>>]_vars

\* C10 as amended: every bookmark command hands the current position (the
\* start page of the range launched last) to save_bookmark under the
\* document, which persists it unless the write fails and then reports the
\* failure; signals, position and threads are unchanged and the loop goes on.
C10_BookmarkSavesCurrent ==
    [][(ctl = "input" /\ command' = "b")
          => /\ last_save'.doc = pdf_path
             /\ last_save'.page = current_page
             /\ current_page = start_page
             /\ IF last_save'.io = "ok"
                THEN /\ Stored(bookmark_file', pdf_path, current_page)
                     /\ report' = Msg("BookmarkSaved", current_page + 1)
                ELSE report' = Msg("ErrorSaving", 0)
             /\ ctl' = "loop"
             /\ UNCHANGED <<paused, stopped, current_page, threads>>]_vars

\* A bookmark taken while paused, after a next-range restart, holds page 5.
C10_Witness ==
    /\ command = "b"
    /\ report = Msg("BookmarkSaved", 6)
    /\ current_page = 5
    /\ Len(threads) >= 2
    /\ paused
    /\ Stored(bookmark_file, pdf_path, 5)

\* C11: a failure of the sink while one unit is rendered is absorbed by the
\* task: the thread that is rendering stays alive over every step and goes
\* on to the next unit.
C11_SinkFailureAbsorbed ==
    [][\A k \in 1..Len(threads) :
          (threads[k].pc = "l148" /\ threads'[k] # threads[k])
             => threads'[k] = [threads[k] EXCEPT !.pc = "l134",
                                                 !.i = threads[k].i + 1]]_vars

\* C12: once a thread has been launched the current position is the start
\* page of the thread launched last: narration does not move it, and a
\* restart that launches no thread leaves it alone.
C12_PositionIsLaunchedStart == Len(threads) >= 1 => current_page = start_page

\* A command is read and answered as a no-op: a message is printed, while
\* signals, position, threads and the stored bookmarks stay as they are.
AnsweredNoOp ==
    /\ Next
    /\ command' # "none"
    /\ report'.msg # "none"
    /\ UNCHANGED <<paused, stopped, current_page, threads, bookmark_file>>

\* C13: while no thread has ever been started (a start was tried and
\* launched none), a command other than start is answered as a no-op with
\* a message.
C13_CommandsAnswered == (Len(threads) = 0 /\ ctl = "done") => ENABLED AnsweredNoOp

\* C14 as stated: once `stopped` is set no thread starts a render.
C14_NoRenderAfterStop ==
    [][stopped => ~(\E k \in 1..Len(threads) : RenderStarts(k))]_vars

\* C14 as amended: once `stopped` is set, every check of it that a thread
\* takes (lines 134 and 143) ends the thread, and the pause loop is left
\* for the check of line 143 (line 140); so the thread starts at most one
\* more render, that of a unit whose check of line 143 it had passed
\* before the signal was set, and a paused thread ends without rendering.
C14_StopEndsAtNextCheck ==
    [][stopped =>
          \A k \in 1..Len(threads) :
             threads'[k] # threads[k] =>
                /\ threads[k].pc \in {"l134", "l143"} => ~Alive(threads'[k])
                /\ threads[k].pc = "l139" => threads'[k].pc = "l143"]_vars

\* A thread that was stopped while it waited in the pause loop has left the
\* loop and is at the check that ends it, a sentence still unsent.
C14_Witness ==
    /\ stopped
    /\ paused
    /\ \E k \in LiveThreads :
          /\ threads[k].pc = "l143"
          /\ threads[k].i <= Len(Sentences(threads[k]))
          /\ Unit(threads[k]) # <<>>

\* C15: while a thread is alive `stopped` never goes from set to unset, and
\* every thread is launched with `paused` and `stopped` both unset.
C15_StoppedOneShot ==
    [][/\ (LiveThreads # {} /\ stopped) => stopped'
       /\ Len(threads') > Len(threads)
             => /\ ~paused'
                /\ ~stopped'
                /\ threads'[Len(threads')] = NewThread(current_page')]_vars

\* A thread launched by a next-range command, in a session that had been
\* paused with a render under way, starts with both signals unset.
C15_Witness ==
    /\ command = "n"
    /\ ctl = "loop"
    /\ Len(threads) >= 2
    /\ pause_renders = 1
    /\ ~paused
    /\ ~stopped
    /\ threads[read_thread] = NewThread(current_page)

\* C16: within one thread every sentence handed to the sink is non-empty
\* after stripping, the index of the sentence never goes back, and a
\* render that ends moves on to the next index; so sentences are rendered
\* in strictly increasing index, none twice.
C16_RendersInOrder ==
    [][\A k \in 1..Len(threads) :
          /\ RenderStarts(k)
                => /\ Strip(Sentences(threads[k])[threads[k].i]) # <<>>
                   /\ threads'[k].i = threads[k].i
          /\ Alive(threads'[k])
                => /\ threads'[k].i >= threads[k].i
                   /\ (threads[k].pc = "l148" /\ threads'[k].pc # "l148")
                         => threads'[k].i = threads[k].i + 1]_vars

\* The third piece of page 1 is being rendered while `paused` is set, the
\* blank piece before it having been skipped.
C16_Witness ==
    /\ paused
    /\ \E k \in LiveThreads :
          /\ threads[k].pc = "l148"
          /\ threads[k].start = 0
          /\ threads[k].i = 3

\* C17: a thread that ends while `stopped` is unset ends at the head of its
\* loop with every sentence behind it, so only after every non-empty
\* sentence of its range has been rendered.
C17_EndsOnlyWhenDone ==
    [][\A k \in 1..Len(threads) :
          (Alive(threads[k]) /\ ~Alive(threads'[k]) /\ ~stopped)
             => /\ threads[k].pc = "l134"
                /\ threads[k].i > Len(Sentences(threads[k]))]_vars

\* C18: a save of doc on a file that holds a mapping leaves every other
\* document at the page load_bookmarks gave for it before the save.
C18_SaveKeepsOthers ==
    [][(loaded' = NotLoaded /\ last_save'.doc # "none"
           /\ bookmark_file.kind = "map")
          => \A d \in DOMAIN bookmark_file.map \ {last_save'.doc} :
                Stored(bookmark_file', d, bookmark_file.map[d])]_vars

\* C19: while a thread is alive the current position is a page index of
\* the document, and so is every page a bookmark command hands to
\* save_bookmark.
C19_PositionValid ==
    /\ LiveThreads # {} => (0 <= current_page /\ current_page < total_pages)
    /\ last_save.doc # "none"
          => (0 <= last_save.page /\ last_save.page < total_pages)

\* The last page of the document, reached by two next-range commands that
\* were clamped to it, is bookmarked.
C19_Witness ==
    /\ command = "b"
    /\ last_save.io = "ok"
    /\ last_save.page = total_pages - 1
    /\ total_pages > PageIncrement
    /\ Len(threads) >= 3

\* C20: once standard input is exhausted the control loop returns and the
\* session ends.
C20_EofReturns == eof ~> (ctl = "done")

====
